---- MODULE Spec2Model ----
(***************************************************************************)
(* AVX-512 vector conversion kernels of                                    *)
(* aten/src/ATen/cpu/vec/vec512/vec512_convert.h.                          *)
(*                                                                         *)
(* A vector register is a sequence of bytes in memory (little-endian)      *)
(* order: a __m512 is 64 bytes, a __m256 is 32, a __m128 is 16.  Lane i    *)
(* (counted from 0) of a register of w-byte elements is bytes              *)
(* w*i+1 .. w*i+w.  A VectorizedN<T, N> is a sequence of N registers.      *)
(* Every lane value is kept as its bit pattern, so widths are exact:       *)
(* an int64 is 8 bytes, a float is the 4 bytes of its IEEE-754 encoding.   *)
(***************************************************************************)
EXTENDS Integers, Sequences, FiniteSets

VARIABLES hist, trace, req, impl, steps

vars == <<hist, trace, req, impl, steps>>

(***************************************************************************)
(* Bytes and bit patterns.                                                 *)
(***************************************************************************)
Powers ==
    <<1, 2, 4, 8, 16, 32, 64, 128, 256, 512, 1024, 2048, 4096, 8192, 16384,
      32768, 65536, 131072, 262144, 524288, 1048576, 2097152, 4194304,
      8388608, 16777216, 33554432, 67108864, 134217728, 268435456,
      536870912, 1073741824>>

\* 2^n for 0 <= n <= 30.
Pow2(n) == Powers[n + 1]

Fill(n, b) == [k \in 1..n |-> b]

Zeros(n) == Fill(n, 0)

\* The w-byte two's complement pattern of an integer v, -2^31 <= v < 2^31.
IntToBytes(v, w) ==
    [k \in 1..w |->
        IF k <= 4 THEN (v \div Pow2(8 * (k - 1))) % 256
        ELSE IF v < 0 THEN 255 ELSE 0]

\* The unsigned value of at most 3 bytes.
BytesToNat(bs) ==
    LET B(k) == IF k <= Len(bs) THEN bs[k] ELSE 0
    IN  B(1) + 256 * B(2) + 65536 * B(3)

IsNegative(bs) == bs[Len(bs)] >= 128

SignExtend(bs, w) ==
    bs \o Fill(w - Len(bs), IF IsNegative(bs) THEN 255 ELSE 0)

ZeroExtend(bs, w) == bs \o Zeros(w - Len(bs))

LowBytes(bs, w) == SubSeq(bs, 1, w)

\* Bit j (0 = least significant) of a byte sequence; 0 outside it.
Bit(bs, j) ==
    IF j < 0 \/ j >= 8 * Len(bs) THEN 0
    ELSE (bs[(j \div 8) + 1] \div Pow2(j % 8)) % 2

\* Two's complement negation of a byte sequence (wraps at its width).
Negate(bs) ==
    LET inv == [k \in 1..Len(bs) |-> 255 - bs[k]]
        \* carry into byte k of the increment: all lower bytes were 255
        carry(k) == \A j \in 1..(k - 1) : inv[j] = 255
    IN  [k \in 1..Len(bs) |-> IF carry(k) THEN (inv[k] + 1) % 256 ELSE inv[k]]

\* The signed value of a byte sequence whose value fits in 24 bits.
FitsSmall(bs) ==
    \A k \in 4..Len(bs) : bs[k] = (IF IsNegative(bs) THEN 255 ELSE 0)

SmallValue(bs) ==
    IF IsNegative(bs) THEN 0 - BytesToNat(Negate(bs)) ELSE BytesToNat(bs)

(***************************************************************************)
(* IEEE-754 binary32 fields of a 4-byte pattern.                           *)
(***************************************************************************)
FSign(f) == f[4] \div 128

FExp(f) == (f[4] % 128) * 2 + (f[3] \div 128)

FMant(f) == (f[3] % 128) * 65536 + f[2] * 256 + f[1]

\* The 24-bit significand with its hidden bit.
FSig(f) == IF FExp(f) = 0 THEN FMant(f) ELSE FMant(f) + 8388608

FIsNaN(f) == FExp(f) = 255 /\ FMant(f) # 0

EncodeFloat(s, e, m) ==
    << m % 256,
       (m \div 256) % 256,
       (e % 2) * 128 + (m \div 65536),
       s * 128 + (e \div 2) >>

(***************************************************************************)
(* Scalar semantics of one lane of the hardware conversion instructions.   *)
(***************************************************************************)
RECURSIVE SumBits(_, _, _)
\* The integer made of the n bits lo .. lo+n-1 of bs.
SumBits(bs, lo, n) ==
    IF n = 0 THEN 0 ELSE Bit(bs, lo) + 2 * SumBits(bs, lo + 1, n - 1)

\* VCVTQQ2PS lane: signed 64-bit integer to binary32, round to nearest even
\* (the default MXCSR rounding mode).
Int64ToFloat(x) ==
    LET s      == IF IsNegative(x) THEN 1 ELSE 0
        mag    == IF s = 1 THEN Negate(x) ELSE x
        top    == CHOOSE k \in 1..8 : mag[k] # 0 /\ \A j \in (k + 1)..8 : mag[j] = 0
        p      == 8 * (top - 1)
                      + (CHOOSE q \in 0..7 : Pow2(q) <= mag[top] /\ mag[top] < Pow2(q + 1))
        M      == SumBits(mag, p - 23, 24)
        sticky == \E j \in 0..(p - 25) : Bit(mag, j) = 1
        inc    == IF Bit(mag, p - 24) = 1 /\ (sticky \/ M % 2 = 1) THEN 1 ELSE 0
    IN  IF mag = Zeros(8) THEN Zeros(4)
        ELSE IF M + inc = 16777216 THEN EncodeFloat(s, p + 128, 0)
        ELSE EncodeFloat(s, p + 127, M + inc - 8388608)

\* The "integer indefinite" value the hardware returns for a NaN, an
\* infinity or a value outside the int64 range: 0x8000000000000000.
Indefinite64 == Zeros(7) \o <<128>>

\* VCVTPS2QQ lane with embedded rounding control: binary32 to signed 64-bit
\* integer.  rounding is "TO_ZERO" or "TO_NEAREST_INT"; exceptions are
\* suppressed (_MM_FROUND_NO_EXC), so every input yields a value.
FloatToInt64(f, rounding) ==
    LET s    == FSign(f)
        e    == FExp(f)
        sig  == FSig(f)
        d    == 150 - e
        q    == IF d > 24 THEN 0 ELSE sig \div Pow2(d)
        rem  == IF d > 24 THEN 0 ELSE sig % Pow2(d)
        up   == IF /\ rounding = "TO_NEAREST_INT"
                   /\ d \in 1..24
                   /\ \/ rem > Pow2(d - 1)
                      \/ rem = Pow2(d - 1) /\ q % 2 = 1
                THEN 1 ELSE 0
        sh   == 0 - d
        big  == Zeros(sh \div 8) \o IntToBytes(sig * Pow2(sh % 8), 4)
                    \o Zeros(4 - (sh \div 8))
        mag  == IF d >= 1 THEN IntToBytes(q + up, 8) ELSE big
    IN  IF e >= 190 THEN Indefinite64
        ELSE IF s = 1 THEN Negate(mag) ELSE mag

\* Mutant: the saturating narrowing VPMOVSQD.
Int64ToInt32_Saturating(x) ==
    IF \A j \in 5..8 : x[j] = (IF x[4] >= 128 THEN 255 ELSE 0) THEN SubSeq(x, 1, 4)
    ELSE IF IsNegative(x) THEN <<0, 0, 0, 128>>
    ELSE <<255, 255, 255, 127>>

\* VPMOVQD lane: the low 32 bits of a 64-bit lane.
Int64ToInt32(x) == LowBytes(x, 4)

\* VPMOVSXDQ lane: sign extension of a 32-bit lane to 64 bits.
Int32ToInt64(x) == SignExtend(x, 8)

\* VPMOVSXBD / VPMOVZXBD lane: an 8-bit lane extended to 32 bits.
Int8ToInt32(x) == SignExtend(x, 4)

UInt8ToInt32(x) == ZeroExtend(x, 4)

(***************************************************************************)
(* Scalar semantics of one lane of the helpers this file calls and that    *)
(* live in other headers (vec512_bfloat16.h, vec512_qint.h, vec_convert.h).*)
(***************************************************************************)
\* cvtbf16_fp32 lane: the 16 bits become the top half of the binary32.
BF16ToFloat(h) == <<0, 0, h[1], h[2]>>

\* cvtfp32_bf16 lane: round to nearest even on the discarded low 16 bits.
\* A NaN yields a NaN; which one is not specified (u picks).
FloatToBF16(f, u) ==
    LET low == f[1] + 256 * f[2]
        hi  == f[3] + 256 * f[4]
        r   == hi + ((low + 32767 + (hi % 2)) \div 65536)
    IN  IF FIsNaN(f)
        THEN IF u = 0 THEN <<(f[3] \div 128) * 128 + 64 + (f[3] % 64), f[4]>>
             ELSE <<255, 255>>
        ELSE <<r % 256, r \div 256>>

\* cvtfp16_fp32 lane: IEEE-754 binary16 to binary32 (exact).
HalfToFloat(h) ==
    LET v == h[1] + 256 * h[2]
        s == v \div 32768
        e == (v \div 1024) % 32
        m == v % 1024
        p == CHOOSE q \in 0..9 : Pow2(q) <= m /\ m < Pow2(q + 1)
    IN  IF e = 0
        THEN IF m = 0 THEN EncodeFloat(s, 0, 0)
             ELSE EncodeFloat(s, 103 + p, (m - Pow2(p)) * Pow2(23 - p))
        ELSE IF e = 31
        THEN EncodeFloat(s, 255,
                 IF m = 0 THEN 0
                 ELSE IF m >= 512 THEN m * 8192 ELSE m * 8192 + 4194304)
        ELSE EncodeFloat(s, e + 112, m * 8192)

\* cvtfp32_fp16 lane: IEEE-754 binary32 to binary16, round to nearest even,
\* overflow to infinity.
FloatToHalf(f) ==
    LET s    == FSign(f)
        e    == FExp(f)
        m    == FMant(f)
        sig  == FSig(f)
        d    == IF e >= 113 THEN 13 ELSE 126 - e
        q    == IF d > 24 THEN 0 ELSE sig \div Pow2(d)
        rem  == IF d > 24 THEN 0 ELSE sig % Pow2(d)
        up   == IF /\ d <= 24
                   /\ \/ rem > Pow2(d - 1)
                      \/ rem = Pow2(d - 1) /\ q % 2 = 1
                THEN 1 ELSE 0
        \* for a normal result q carries the hidden bit: q = 1024 + fraction
        h    == IF e >= 113 THEN (e - 113) * 1024 + q + up ELSE q + up
        out  == IF FIsNaN(f) THEN 32256 + ((m \div 8192) % 512)
                ELSE IF e = 255 \/ h >= 31744 THEN 31744
                ELSE h
    IN  <<out % 256, s * 128 + (out \div 256)>>

MinOf(t) == IF t = "int8_t" THEN 0 - 128 ELSE 0

MaxOf(t) == IF t = "int8_t" THEN 127 ELSE 255

\* convert_float_to_int8<dst_t> lane: saturating conversion.  The integer
\* part of f, clamped to the range of dst_t.  The result for a NaN is not
\* specified (u picks).
FloatToInt8(dst_t, f, u) ==
    LET e == FExp(f)
        t == IF e < 127 THEN 0
             ELSE IF e >= 135 THEN 256
             ELSE FSig(f) \div Pow2(150 - e)
        v == IF FSign(f) = 1 THEN 0 - t ELSE t
        c == IF v > MaxOf(dst_t) THEN MaxOf(dst_t)
             ELSE IF v < MinOf(dst_t) THEN MinOf(dst_t)
             ELSE v
    IN  IF FIsNaN(f) THEN <<u>> ELSE <<c % 256>>

\* The value of an 8-bit lane read as src_t.
ValueOf(src_t, b) == IF src_t = "int8_t" /\ b[1] >= 128 THEN b[1] - 256 ELSE b[1]

\* convert_int8_to_float<src_t> lane: the binary32 equal to the integer.
Int8ToFloat(src_t, b) ==
    LET v == ValueOf(src_t, b)
        a == IF v < 0 THEN 0 - v ELSE v
        p == CHOOSE q \in 0..8 : Pow2(q) <= a /\ a < Pow2(q + 1)
    IN  IF v = 0 THEN Zeros(4)
        ELSE EncodeFloat(IF v < 0 THEN 1 ELSE 0, 127 + p, (a - Pow2(p)) * Pow2(23 - p))

\* The generic VecConvert's element conversion, static_cast<dst_t>(src_t),
\* for the pairs the composed conversions go through.
StaticCast(dst_t, src_t, x) ==
    CASE dst_t = "float" /\ src_t = "int32_t" -> Int64ToFloat(SignExtend(x, 8))
      [] dst_t \in {"int8_t", "uint8_t"} /\ src_t = "int32_t" -> LowBytes(x, 1)
      [] dst_t = "int64_t" /\ src_t = "int8_t" -> SignExtend(x, 8)
      [] dst_t = "int64_t" /\ src_t = "uint8_t" -> ZeroExtend(x, 8)

(***************************************************************************)
(* Registers and the intrinsics of the file.                               *)
(***************************************************************************)
RegisterBytes == 64

Lane(r, w, i) == SubSeq(r, w * i + 1, w * i + w)

\* The lane numbers of a register of w-byte lanes.
LaneIndex(r, w) == 0..((Len(r) \div w) - 1)

RECURSIVE ConcatFrom(_, _, _)
ConcatFrom(per, i, n) ==
    IF i >= n THEN <<>> ELSE per[i] \o ConcatFrom(per, i + 1, n)

\* The register whose lane i is per[i], in lane order.
Pack(per) == ConcatFrom(per, 0, Cardinality(DOMAIN per))

\* Mutant: the highest 128 bits instead of the lowest.
mm512_castsi512_si128_Upper(a) == SubSeq(a, 49, 64)

\* Casts to a narrower register keep the low bytes.
mm512_castsi512_si256(a) == SubSeq(a, 1, 32)

mm512_castps512_ps256(a) == SubSeq(a, 1, 32)

mm512_castsi512_si128(a) == SubSeq(a, 1, 16)

\* Casts to a wider register leave the upper 256 bits undefined: fill is
\* whatever the build happens to leave there.
mm512_castsi256_si512(a, fill) == a \o Fill(32, fill)

mm512_castps256_ps512(a, fill) == a \o Fill(32, fill)

\* Replace 256-bit half imm of a by b.
mm512_insertf32x8(a, b, imm) ==
    IF imm = 1 THEN SubSeq(a, 1, 32) \o b ELSE b \o SubSeq(a, 33, 64)

mm512_inserti32x8(a, b, imm) ==
    IF imm = 1 THEN SubSeq(a, 1, 32) \o b ELSE b \o SubSeq(a, 33, 64)

\* 256-bit half imm of a.
mm512_extractf32x8_ps(a, imm) == SubSeq(a, 32 * imm + 1, 32 * imm + 32)

mm512_extracti32x8_epi32(a, imm) == SubSeq(a, 32 * imm + 1, 32 * imm + 32)

mm512_cvtepi64_ps(a) == Pack([i \in LaneIndex(a, 8) |-> Int64ToFloat(Lane(a, 8, i))])

mm512_cvt_roundps_epi64(a, rounding) ==
    Pack([i \in LaneIndex(a, 4) |-> FloatToInt64(Lane(a, 4, i), rounding)])

mm512_cvtepi64_epi32(a) == Pack([i \in LaneIndex(a, 8) |-> Int64ToInt32(Lane(a, 8, i))])

mm512_cvtepi32_epi64(a) == Pack([i \in LaneIndex(a, 4) |-> Int32ToInt64(Lane(a, 4, i))])

mm512_cvtepi8_epi32(a) == Pack([i \in LaneIndex(a, 1) |-> Int8ToInt32(Lane(a, 1, i))])

mm512_cvtepu8_epi32(a) == Pack([i \in LaneIndex(a, 1) |-> UInt8ToInt32(Lane(a, 1, i))])

(***************************************************************************)
(* Helpers of other headers, register-wide.                                *)
(***************************************************************************)
cvtbf16_fp32(a) == Pack([i \in LaneIndex(a, 2) |-> BF16ToFloat(Lane(a, 2, i))])

cvtfp16_fp32(a) == Pack([i \in LaneIndex(a, 2) |-> HalfToFloat(Lane(a, 2, i))])

cvtfp32_bf16(a, nan) == Pack([i \in LaneIndex(a, 4) |-> FloatToBF16(Lane(a, 4, i), nan)])

cvtfp32_fp16(a) == Pack([i \in LaneIndex(a, 4) |-> FloatToHalf(Lane(a, 4, i))])

\* The 16 converted lanes come first; the other 48 lanes are not specified.
convert_float_to_int8(dst_t, a, nan, fill) ==
    Pack([i \in LaneIndex(a, 4) |-> FloatToInt8(dst_t, Lane(a, 4, i), nan)]) \o Fill(48, fill)

\* Converts as many lanes as a float register holds: the first 16.
convert_int8_to_float(src_t, a) ==
    LET input_128 == SubSeq(a, 1, 16)
    IN  Pack([i \in LaneIndex(input_128, 1) |->
                 Int8ToFloat(src_t, Lane(input_128, 1, i))])

SizeOf(t) ==
    CASE t = "float" -> 4
      [] t = "BFloat16" -> 2
      [] t = "Half" -> 2
      [] t = "int64_t" -> 8
      [] t = "int32_t" -> 4
      [] t = "int8_t" -> 1
      [] t = "uint8_t" -> 1

\* VectorizedN<t, n>::size(): the number of elements of the group.
GroupSize(t, n) == n * (RegisterBytes \div SizeOf(t))

RECURSIVE Flatten(_)
\* store(): the registers of a group as one array.
Flatten(regs) == IF regs = <<>> THEN <<>> ELSE Head(regs) \o Flatten(Tail(regs))

\* loadu(): an array as n registers.
Split(bytes, n) ==
    [k \in 1..n |-> SubSeq(bytes, RegisterBytes * (k - 1) + 1, RegisterBytes * k)]

\* The generic VecConvert: element by element over the first
\* min(src size, dst size) elements; the remaining destination lanes are
\* not specified here.
GenericVecConvert(dst_t, dst_n, src_t, src_n, src, fill) ==
    LET count == IF GroupSize(src_t, src_n) < GroupSize(dst_t, dst_n)
                 THEN GroupSize(src_t, src_n) ELSE GroupSize(dst_t, dst_n)
        buf   == SubSeq(Flatten(src), 1, count * SizeOf(src_t))
        conv  == Pack([i \in LaneIndex(buf, SizeOf(src_t)) |->
                         StaticCast(dst_t, src_t, Lane(buf, SizeOf(src_t), i))])
    IN  Split(conv \o Fill(dst_n * RegisterBytes - Len(conv), fill), dst_n)

(***************************************************************************)
(* Template resolution.  A request is the 4-tuple                          *)
(* <<DstT, DstN, SrcT, SrcN>>; int8_t is signed char and uint8_t is        *)
(* unsigned char.                                                          *)
(***************************************************************************)
ElementTypes ==
    {"float", "BFloat16", "Half", "int64_t", "int32_t", "int8_t", "uint8_t"}

GroupSizes == {1, 2}

Tuples == ElementTypes \X GroupSizes \X ElementTypes \X GroupSizes

\* std::is_same_v<T, unsigned char> || std::is_same_v<T, signed char>
IsChar8(t) == t = "uint8_t" \/ t = "int8_t"

\* Mutant: a constraint that also admits int32_t.
IsInt8_OrInt32(t) == t = "int8_t" \/ t = "uint8_t" \/ t = "int32_t"

\* std::is_same_v<T, int8_t> || std::is_same_v<T, uint8_t>
IsInt8(t) == t = "int8_t" \/ t = "uint8_t"

FullSpecializations ==
    { "VecConvert<float,1,BFloat16,1>", "VecConvert<float,1,Half,1>",
      "VecConvert<BFloat16,1,float,1>", "VecConvert<Half,1,float,1>",
      "VecConvert<float,1,int64_t,2>", "VecConvert<int64_t,2,float,1>",
      "VecConvert<int32_t,1,int64_t,2>", "VecConvert<int64_t,2,int32_t,1>",
      "VecConvert<int32_t,1,int8_t,1>", "VecConvert<int32_t,1,uint8_t,1>" }

PartialSpecializations ==
    { "VecConvert<dst_t,1,float,1>", "VecConvert<float,1,src_t,1>",
      "VecConvert<dst_t,1,int64_t,2>" }

Specializations == FullSpecializations \cup PartialSpecializations

\* Whether specialization k is a candidate for request t.
Matches(k, t) ==
    CASE k = "VecConvert<float,1,BFloat16,1>" -> t = <<"float", 1, "BFloat16", 1>>
      [] k = "VecConvert<float,1,Half,1>" -> t = <<"float", 1, "Half", 1>>
      [] k = "VecConvert<BFloat16,1,float,1>" -> t = <<"BFloat16", 1, "float", 1>>
      [] k = "VecConvert<Half,1,float,1>" -> t = <<"Half", 1, "float", 1>>
      [] k = "VecConvert<float,1,int64_t,2>" -> t = <<"float", 1, "int64_t", 2>>
      [] k = "VecConvert<int64_t,2,float,1>" -> t = <<"int64_t", 2, "float", 1>>
      [] k = "VecConvert<int32_t,1,int64_t,2>" -> t = <<"int32_t", 1, "int64_t", 2>>
      [] k = "VecConvert<int64_t,2,int32_t,1>" -> t = <<"int64_t", 2, "int32_t", 1>>
      [] k = "VecConvert<int32_t,1,int8_t,1>" -> t = <<"int32_t", 1, "int8_t", 1>>
      [] k = "VecConvert<int32_t,1,uint8_t,1>" -> t = <<"int32_t", 1, "uint8_t", 1>>
      [] k = "VecConvert<dst_t,1,float,1>" ->
             IsChar8(t[1]) /\ t[2] = 1 /\ t[3] = "float" /\ t[4] = 1
      [] k = "VecConvert<float,1,src_t,1>" ->
             t[1] = "float" /\ t[2] = 1 /\ IsChar8(t[3]) /\ t[4] = 1
      [] k = "VecConvert<dst_t,1,int64_t,2>" ->
             IsInt8(t[1]) /\ t[2] = 1 /\ t[3] = "int64_t" /\ t[4] = 2

Matching(t) == {k \in Specializations : Matches(k, t)}

\* The implementation a request resolves to: a matching specialization of
\* this file, else the primary template (the generic fallback).
Resolve(t) ==
    IF Matching(t) = {} THEN "generic" ELSE CHOOSE k \in Matching(t) : TRUE

\* The requests a specialization's body makes itself (its callees), outer
\* call last.
Callees(k, t) ==
    IF k = "VecConvert<dst_t,1,int64_t,2>"
    THEN << <<"int32_t", 1, "int64_t", 2>>, <<t[1], 1, "int32_t", 1>> >>
    ELSE <<>>

RECURSIVE Apply(_, _, _, _)

(***************************************************************************)
(* The specializations of the file.  src is the sequence of registers of   *)
(* the source group, the result that of the destination group.             *)
(***************************************************************************)
\* Mutant: the half-precision helper called for BFloat16.
VecConvert_float_1_BFloat16_1_AsHalf(src) ==
    LET value == cvtfp16_fp32(mm512_castsi512_si256(src[1]))
    IN  <<value>>

VecConvert_float_1_BFloat16_1(src) ==
    LET value == cvtbf16_fp32(mm512_castsi512_si256(src[1]))
    IN  <<value>>

VecConvert_float_1_Half_1(src) ==
    LET value == cvtfp16_fp32(mm512_castsi512_si256(src[1]))
    IN  <<value>>

VecConvert_BFloat16_1_float_1(src, nan, fill) ==
    <<mm512_castsi256_si512(cvtfp32_bf16(src[1], nan), fill)>>

VecConvert_Half_1_float_1(src, fill) ==
    <<mm512_castsi256_si512(cvtfp32_fp16(src[1]), fill)>>

\* Mutant: the two halves of the result exchanged.
VecConvert_float_1_int64_t_2_Swapped(src, fill) ==
    LET low  == mm512_cvtepi64_ps(src[1])
        high == mm512_cvtepi64_ps(src[2])
    IN  <<mm512_insertf32x8(mm512_castps256_ps512(high, fill), low, 1)>>

VecConvert_float_1_int64_t_2(src, fill) ==
    LET low  == mm512_cvtepi64_ps(src[1])
        high == mm512_cvtepi64_ps(src[2])
    IN  <<mm512_insertf32x8(mm512_castps256_ps512(low, fill), high, 1)>>

\* Mutant: the current rounding mode (to nearest) instead of truncation.
VecConvert_int64_t_2_float_1_Nearest(src) ==
    << mm512_cvt_roundps_epi64(mm512_castps512_ps256(src[1]), "TO_NEAREST_INT"),
       mm512_cvt_roundps_epi64(mm512_extractf32x8_ps(src[1], 1), "TO_NEAREST_INT") >>

VecConvert_int64_t_2_float_1(src) ==
    << mm512_cvt_roundps_epi64(mm512_castps512_ps256(src[1]), "TO_ZERO"),
       mm512_cvt_roundps_epi64(mm512_extractf32x8_ps(src[1], 1), "TO_ZERO") >>

VecConvert_int32_t_1_int64_t_2(src, fill) ==
    LET low  == mm512_cvtepi64_epi32(src[1])
        high == mm512_cvtepi64_epi32(src[2])
    IN  <<mm512_inserti32x8(mm512_castsi256_si512(low, fill), high, 1)>>

\* Mutant: the low half widened into both result registers.
VecConvert_int64_t_2_int32_t_1_LowTwice(src) ==
    << mm512_cvtepi32_epi64(mm512_castsi512_si256(src[1])),
       mm512_cvtepi32_epi64(mm512_castsi512_si256(src[1])) >>

VecConvert_int64_t_2_int32_t_1(src) ==
    << mm512_cvtepi32_epi64(mm512_castsi512_si256(src[1])),
       mm512_cvtepi32_epi64(mm512_extracti32x8_epi32(src[1], 1)) >>

\* Mutant: the zero-extending instruction for the signed type.
VecConvert_int32_t_1_int8_t_1_ZeroExtend(src) ==
    LET src128 == mm512_castsi512_si128(src[1])
    IN  <<mm512_cvtepu8_epi32(src128)>>

VecConvert_int32_t_1_int8_t_1(src) ==
    LET src128 == mm512_castsi512_si128(src[1])
    IN  <<mm512_cvtepi8_epi32(src128)>>

VecConvert_int32_t_1_uint8_t_1(src) ==
    LET src128 == mm512_castsi512_si128(src[1])
    IN  <<mm512_cvtepu8_epi32(src128)>>

\* Mutant: the helper instantiated for the signed type whatever dst_t is.
VecConvert_dst_t_1_float_1_Signed(dst_t, src, nan, fill) ==
    <<convert_float_to_int8("int8_t", src[1], nan, fill)>>

VecConvert_dst_t_1_float_1(dst_t, src, nan, fill) ==
    <<convert_float_to_int8(dst_t, src[1], nan, fill)>>

VecConvert_float_1_src_t_1(src_t, src) ==
    <<convert_int8_to_float(src_t, src[1])>>

\* Mutant: the int64 group handed to the int32 conversion as it is.
VecConvert_dst_t_1_int64_t_2_NoNarrow(dst_t, src, nan, fill) ==
    Apply(<<dst_t, 1, "int32_t", 1>>, src, nan, fill)

VecConvert_dst_t_1_int64_t_2(dst_t, src, nan, fill) ==
    Apply(<<dst_t, 1, "int32_t", 1>>,
          Apply(<<"int32_t", 1, "int64_t", 2>>, src, nan, fill), nan, fill)

\* VecConvert<DstT, DstN, SrcT, SrcN>::apply(src) for request t, as resolved.
Apply(t, src, nan, fill) ==
    LET k == Resolve(t)
    IN  CASE k = "VecConvert<float,1,BFloat16,1>" -> VecConvert_float_1_BFloat16_1(src)
          [] k = "VecConvert<float,1,Half,1>" -> VecConvert_float_1_Half_1(src)
          [] k = "VecConvert<BFloat16,1,float,1>" -> VecConvert_BFloat16_1_float_1(src, nan, fill)
          [] k = "VecConvert<Half,1,float,1>" -> VecConvert_Half_1_float_1(src, fill)
          [] k = "VecConvert<float,1,int64_t,2>" -> VecConvert_float_1_int64_t_2(src, fill)
          [] k = "VecConvert<int64_t,2,float,1>" -> VecConvert_int64_t_2_float_1(src)
          [] k = "VecConvert<int32_t,1,int64_t,2>" -> VecConvert_int32_t_1_int64_t_2(src, fill)
          [] k = "VecConvert<int64_t,2,int32_t,1>" -> VecConvert_int64_t_2_int32_t_1(src)
          [] k = "VecConvert<int32_t,1,int8_t,1>" -> VecConvert_int32_t_1_int8_t_1(src)
          [] k = "VecConvert<int32_t,1,uint8_t,1>" -> VecConvert_int32_t_1_uint8_t_1(src)
          [] k = "VecConvert<dst_t,1,float,1>" -> VecConvert_dst_t_1_float_1(t[1], src, nan, fill)
          [] k = "VecConvert<float,1,src_t,1>" -> VecConvert_float_1_src_t_1(t[3], src)
          [] k = "VecConvert<dst_t,1,int64_t,2>" -> VecConvert_dst_t_1_int64_t_2(t[1], src, nan, fill)
          [] k = "generic" -> GenericVecConvert(t[1], t[2], t[3], t[4], src, fill)


(***************************************************************************)
(* Inputs.  A group is [T, N, regs].  The lanes of an input group are      *)
(* consecutive samples of its element type, so that the lanes of one       *)
(* group differ and every sample appears in several lanes.                 *)
(***************************************************************************)
MaxCalls == 2

MaxDelta == 1

NumDeltas == 2 * MaxDelta + 1

Clip(v, lo, hi) == IF v < lo THEN lo ELSE IF v > hi THEN hi ELSE v

FloatExps ==
    <<0, 103, 112, 113, 126, 127, 128, 190, 189, 133, 134, 135, 136, 142,
      143, 149, 150, 158, 254, 255>>

\* 0x39999A is the fraction of 2.9, 0x480000 that of 100.0 and 0x7A0000
\* that of 1000.0; 0x8000 and 0x18000 are ties of the bfloat16 rounding.
FloatMantAnchors ==
    <<0, 4096, 32768, 98304, 3774874, 4194304, 4718592, 7995392, 8388607>>

NumFloatSamples == 2 * Len(FloatExps) * Len(FloatMantAnchors) * NumDeltas

FloatSample(i) ==
    LET e  == FloatExps[((i \div 2) % Len(FloatExps)) + 1]
        mi == i \div (2 * Len(FloatExps))
        a  == FloatMantAnchors[((mi \div NumDeltas) % Len(FloatMantAnchors)) + 1]
    IN  EncodeFloat(i % 2, e, Clip(a + (mi % NumDeltas) - MaxDelta, 0, 8388607))

Int32Anchors ==
    <<0, 128 - MaxDelta, 256 - MaxDelta, 32768 - MaxDelta, 65536 - MaxDelta,
      16777216 - MaxDelta, 1073741824 - MaxDelta, 2147483647 - 2 * MaxDelta>>

NumInt32Samples == 2 * Len(Int32Anchors) * NumDeltas

\* a and its complement -a - 1: both ends of the int32 range are samples.
Int32Sample(i) ==
    LET mi == i \div 2
        a  == Int32Anchors[((mi \div NumDeltas) % Len(Int32Anchors)) + 1]
                 + (mi % NumDeltas)
    IN  IntToBytes(IF i % 2 = 0 THEN a ELSE 0 - a - 1, 4)

Int64Highs == <<0, 0 - 1, 1, 0 - 2, 2147483647, 0 - 2147483647 - 1, 305419896>>

NumInt64Samples == NumInt32Samples * Len(Int64Highs)

Int64Sample(i) ==
    Int32Sample(i % NumInt32Samples)
        \o IntToBytes(Int64Highs[((i \div NumInt32Samples) % Len(Int64Highs)) + 1], 4)

BF16Exps == <<0, 1, 127, 128, 254, 255>>

BF16Mants == <<0, 1, 64, 127>>

NumBF16Samples == 2 * Len(BF16Exps) * Len(BF16Mants)

BF16Sample(i) ==
    LET e == BF16Exps[((i \div 2) % Len(BF16Exps)) + 1]
        m == BF16Mants[((i \div (2 * Len(BF16Exps))) % Len(BF16Mants)) + 1]
    IN  <<(e % 2) * 128 + m, (i % 2) * 128 + (e \div 2)>>

HalfExps == <<0, 1, 14, 15, 16, 30, 31>>

HalfMants == <<0, 1, 512, 1023>>

NumHalfSamples == 2 * Len(HalfExps) * Len(HalfMants)

HalfSample(i) ==
    LET e == HalfExps[((i \div 2) % Len(HalfExps)) + 1]
        m == HalfMants[((i \div (2 * Len(HalfExps))) % Len(HalfMants)) + 1]
    IN  <<m % 256, (i % 2) * 128 + e * 4 + (m \div 256)>>

NumSamples(t) ==
    CASE t = "float" -> NumFloatSamples
      [] t = "BFloat16" -> NumBF16Samples
      [] t = "Half" -> NumHalfSamples
      [] t = "int64_t" -> NumInt64Samples
      [] t = "int32_t" -> NumInt32Samples
      [] t = "int8_t" -> 256
      [] t = "uint8_t" -> 256

Sample(t, i) ==
    LET k == i % NumSamples(t)
    IN  CASE t = "float" -> FloatSample(k)
          [] t = "BFloat16" -> BF16Sample(k)
          [] t = "Half" -> HalfSample(k)
          [] t = "int64_t" -> Int64Sample(k)
          [] t = "int32_t" -> Int32Sample(k)
          [] t = "int8_t" -> <<k>>
          [] t = "uint8_t" -> <<k>>

\* The source groups callers hold: the logical length is 16 elements.
SourceGroups ==
    { <<"float", 1>>, <<"BFloat16", 1>>, <<"Half", 1>>, <<"int64_t", 2>>,
      <<"int32_t", 1>>, <<"int8_t", 1>>, <<"uint8_t", 1>> }

LogicalLength == 16

Rotations == {0, 9}

\* Lane j of input number base: the 16 logical elements are the samples
\* 16*base .. 16*base+15 rotated by rot; the lanes beyond them (of the 8-
\* and 16-bit types) hold other samples, which ones depending on alt.
InputLane(t, base, rot, alt, j) ==
    IF j < LogicalLength
    THEN Sample(t, LogicalLength * base + ((j + rot) % LogicalLength))
    ELSE Sample(t, LogicalLength * base + j + 5 + 16 * alt)

InputGroup(g, base, rot, alt) ==
    LET t     == g[1]
        lanes == [j \in 0..(GroupSize(t, g[2]) - 1) |-> InputLane(t, base, rot, alt, j)]
    IN  [T |-> t, N |-> g[2], regs |-> Split(Pack(lanes), g[2])]

Inputs ==
    UNION { { InputGroup(g, base, rot, alt) :
                base \in 0..((NumSamples(g[1]) - 1) \div LogicalLength),
                rot \in Rotations, alt \in {0, 1} } : g \in SourceGroups }

(***************************************************************************)
(* The calls.  hist is the sequence of groups a caller has held: its       *)
(* input, then the result of each conversion it called in turn; trace is   *)
(* the implementation each call ran.  req, impl and steps are the last     *)
(* request, the implementation it resolved to and the implementations its  *)
(* body's own requests resolved to.                                        *)
(***************************************************************************)
Unspecified == {0, 255}

Cur == hist[Len(hist)]

\* The request for destination group <<dst_t, dst_n>> from the current group.
Request(dst_t, dst_n) == <<dst_t, dst_n, Cur.T, Cur.N>>

StepsOf(k, t) == [i \in 1..Len(Callees(k, t)) |-> Resolve(Callees(k, t)[i])]

Call(k, t, result) ==
    /\ Len(trace) < MaxCalls
    /\ hist' = Append(hist, [T |-> t[1], N |-> t[2], regs |-> result])
    /\ trace' = Append(trace, k)
    /\ req' = t
    /\ impl' = k
    /\ steps' = StepsOf(k, t)

Init ==
    /\ hist \in {<<g>> : g \in Inputs}
    /\ trace = <<>>
    /\ req = <<>>
    /\ impl = "unresolved"
    /\ steps = <<>>

Convert_float_1_BFloat16_1 ==
    LET t == Request("float", 1)
    IN  /\ Matches("VecConvert<float,1,BFloat16,1>", t)
        /\ Call("VecConvert<float,1,BFloat16,1>", t,
                VecConvert_float_1_BFloat16_1(Cur.regs))

Convert_float_1_Half_1 ==
    LET t == Request("float", 1)
    IN  /\ Matches("VecConvert<float,1,Half,1>", t)
        /\ Call("VecConvert<float,1,Half,1>", t,
                VecConvert_float_1_Half_1(Cur.regs))

Convert_BFloat16_1_float_1 ==
    LET t == Request("BFloat16", 1)
    IN  /\ Matches("VecConvert<BFloat16,1,float,1>", t)
        /\ \E nan \in Unspecified, fill \in Unspecified :
              Call("VecConvert<BFloat16,1,float,1>", t,
                   VecConvert_BFloat16_1_float_1(Cur.regs, nan, fill))

Convert_Half_1_float_1 ==
    LET t == Request("Half", 1)
    IN  /\ Matches("VecConvert<Half,1,float,1>", t)
        /\ \E fill \in Unspecified :
              Call("VecConvert<Half,1,float,1>", t,
                   VecConvert_Half_1_float_1(Cur.regs, fill))

Convert_float_1_int64_t_2 ==
    LET t == Request("float", 1)
    IN  /\ Matches("VecConvert<float,1,int64_t,2>", t)
        /\ \E fill \in Unspecified :
              Call("VecConvert<float,1,int64_t,2>", t,
                   VecConvert_float_1_int64_t_2(Cur.regs, fill))

Convert_int64_t_2_float_1 ==
    LET t == Request("int64_t", 2)
    IN  /\ Matches("VecConvert<int64_t,2,float,1>", t)
        /\ Call("VecConvert<int64_t,2,float,1>", t,
                VecConvert_int64_t_2_float_1(Cur.regs))

Convert_int32_t_1_int64_t_2 ==
    LET t == Request("int32_t", 1)
    IN  /\ Matches("VecConvert<int32_t,1,int64_t,2>", t)
        /\ \E fill \in Unspecified :
              Call("VecConvert<int32_t,1,int64_t,2>", t,
                   VecConvert_int32_t_1_int64_t_2(Cur.regs, fill))

Convert_int64_t_2_int32_t_1 ==
    LET t == Request("int64_t", 2)
    IN  /\ Matches("VecConvert<int64_t,2,int32_t,1>", t)
        /\ Call("VecConvert<int64_t,2,int32_t,1>", t,
                VecConvert_int64_t_2_int32_t_1(Cur.regs))

Convert_int32_t_1_int8_t_1 ==
    LET t == Request("int32_t", 1)
    IN  /\ Matches("VecConvert<int32_t,1,int8_t,1>", t)
        /\ Call("VecConvert<int32_t,1,int8_t,1>", t,
                VecConvert_int32_t_1_int8_t_1(Cur.regs))

Convert_int32_t_1_uint8_t_1 ==
    LET t == Request("int32_t", 1)
    IN  /\ Matches("VecConvert<int32_t,1,uint8_t,1>", t)
        /\ Call("VecConvert<int32_t,1,uint8_t,1>", t,
                VecConvert_int32_t_1_uint8_t_1(Cur.regs))

Convert_dst_t_1_float_1 ==
    \E dst_t \in ElementTypes :
        LET t == Request(dst_t, 1)
        IN  /\ Matches("VecConvert<dst_t,1,float,1>", t)
            /\ \E nan \in Unspecified, fill \in Unspecified :
                  Call("VecConvert<dst_t,1,float,1>", t,
                       VecConvert_dst_t_1_float_1(dst_t, Cur.regs, nan, fill))

Convert_float_1_src_t_1 ==
    LET t == Request("float", 1)
    IN  /\ Matches("VecConvert<float,1,src_t,1>", t)
        /\ Call("VecConvert<float,1,src_t,1>", t,
                VecConvert_float_1_src_t_1(Cur.T, Cur.regs))

Convert_dst_t_1_int64_t_2 ==
    \E dst_t \in ElementTypes :
        LET t == Request(dst_t, 1)
        IN  /\ Matches("VecConvert<dst_t,1,int64_t,2>", t)
            /\ \E nan \in Unspecified, fill \in Unspecified :
                  Call("VecConvert<dst_t,1,int64_t,2>", t,
                       VecConvert_dst_t_1_int64_t_2(dst_t, Cur.regs, nan, fill))

\* The requests no specialization of the file serves and whose element
\* conversion StaticCast gives: the generic VecConvert runs.
GenericRequests ==
    { <<"float", 1, "int32_t", 1>>, <<"int8_t", 1, "int32_t", 1>>,
      <<"uint8_t", 1, "int32_t", 1>>, <<"int64_t", 2, "int8_t", 1>>,
      <<"int64_t", 2, "uint8_t", 1>> }

Convert_generic ==
    \E dst_t \in ElementTypes, dst_n \in GroupSizes :
        LET t == Request(dst_t, dst_n)
        IN  /\ t \in GenericRequests
            /\ Matching(t) = {}
            /\ \E fill \in Unspecified :
                  Call("generic", t,
                       GenericVecConvert(dst_t, dst_n, Cur.T, Cur.N, Cur.regs, fill))

Next ==
    \/ Convert_float_1_BFloat16_1
    \/ Convert_float_1_Half_1
    \/ Convert_BFloat16_1_float_1
    \/ Convert_Half_1_float_1
    \/ Convert_float_1_int64_t_2
    \/ Convert_int64_t_2_float_1
    \/ Convert_int32_t_1_int64_t_2
    \/ Convert_int64_t_2_int32_t_1
    \/ Convert_int32_t_1_int8_t_1
    \/ Convert_int32_t_1_uint8_t_1
    \/ Convert_dst_t_1_float_1
    \/ Convert_float_1_src_t_1
    \/ Convert_dst_t_1_int64_t_2
    \/ Convert_generic

Spec == Init /\ [][Next]_vars

(***************************************************************************)
(* Template resolution alone, over every request.                          *)
(***************************************************************************)
DispatchInit ==
    /\ hist = <<>>
    /\ trace = <<>>
    /\ req \in Tuples
    /\ impl = "unresolved"
    /\ steps = <<>>

\* Instantiating VecConvert<req>: any matching specialization is a
\* candidate; the primary template serves a request none matches.
Instantiate ==
    /\ impl = "unresolved"
    /\ \E k \in Specializations \cup {"generic"} :
          /\ IF k = "generic" THEN Matching(req) = {} ELSE Matches(k, req)
          /\ impl' = k
          /\ steps' = StepsOf(k, req)
    /\ UNCHANGED <<hist, trace, req>>

DispatchNext == Instantiate

SpecDispatch == DispatchInit /\ [][DispatchNext]_vars

(***************************************************************************)
(* Properties.                                                             *)
(***************************************************************************)
Widen == "VecConvert<int64_t,2,int32_t,1>"

Narrow == "VecConvert<int32_t,1,int64_t,2>"

\* The call that produced the current group: every call is the last call
\* of the state it leads to.
Calls == IF trace = <<>> THEN {} ELSE {Len(trace)}

\* The last two calls, k and k+1.
CallPairs == IF Len(trace) < 2 THEN {} ELSE {Len(trace) - 1}

Logical == 0..(LogicalLength - 1)

\* Logical element i of a group: register i div lanes_per_register, lane
\* i mod lanes_per_register.
Elem(g, i) ==
    LET w == SizeOf(g.T)
        L == RegisterBytes \div w
    IN  Lane(g.regs[(i \div L) + 1], w, i % L)

WellFormed(g) ==
    /\ Len(g.regs) = g.N
    /\ \A r \in 1..g.N : Len(g.regs[r]) = RegisterBytes

Int32Min == IntToBytes(0 - 2147483647 - 1, 4)

Int32Max == IntToBytes(2147483647, 4)

\* A 64-bit pattern whose value lies in [-2^31, 2^31 - 1]: bits 31..63 agree.
InInt32Range(y) == \A j \in 5..8 : y[j] = (IF y[4] >= 128 THEN 255 ELSE 0)

\* C1: for every int32 group x, narrowing the widened x gives x back,
\* lane for lane (all 16 lanes, the whole register).
C1_RoundTrip ==
    \A k \in CallPairs :
        (trace[k] = Widen /\ trace[k + 1] = Narrow)
            => /\ hist[k + 2].regs = hist[k].regs
               /\ \A i \in Logical : Elem(hist[k + 2], i) = Elem(hist[k], i)

C1_Witness ==
    /\ trace = <<Widen, Narrow>>
    /\ \E i, j \in Logical :
          /\ Elem(hist[1], i) = Int32Min
          /\ Elem(hist[1], j) = Int32Max
          /\ Elem(hist[2], i) = Zeros(3) \o <<128, 255, 255, 255, 255>>

\* C2: narrowing wraps: each result lane is the low 32 bits of the 64-bit
\* lane, and widening the narrowed y gives y back exactly for the lanes
\* whose value is within the int32 range and for no other lane.
C2_WrapLaw ==
    /\ \A k \in Calls :
          trace[k] = Narrow =>
              \A i \in Logical :
                  \A b \in 0..31 :
                      Bit(Elem(hist[k + 1], i), b) = Bit(Elem(hist[k], i), b)
    /\ \A k \in CallPairs :
          (trace[k] = Narrow /\ trace[k + 1] = Widen) =>
              \A i \in Logical :
                  (Elem(hist[k + 2], i) = Elem(hist[k], i))
                      <=> InInt32Range(Elem(hist[k], i))

C2_Witness ==
    /\ trace = <<Narrow, Widen>>
    /\ \E i, j \in Logical :
          /\ InInt32Range(Elem(hist[1], i))
          /\ Elem(hist[3], i) = Elem(hist[1], i)
          \* 2^31: above the range, wraps to -2^31
          /\ Elem(hist[1], j) = Zeros(3) \o <<128, 0, 0, 0, 0>>
          /\ Elem(hist[2], j) = Int32Min
          /\ Elem(hist[3], j) # Elem(hist[1], j)

\* The element conversion of each kernel between a 2-register int64 group
\* and a 1-register group.
ElementConversion(k, x) ==
    CASE k = "VecConvert<float,1,int64_t,2>" -> Int64ToFloat(x)
      [] k = "VecConvert<int64_t,2,float,1>" -> FloatToInt64(x, "TO_ZERO")
      [] k = "VecConvert<int32_t,1,int64_t,2>" -> Int64ToInt32(x)
      [] k = "VecConvert<int64_t,2,int32_t,1>" -> Int32ToInt64(x)

RegisterCountChanging ==
    { "VecConvert<float,1,int64_t,2>", "VecConvert<int64_t,2,float,1>",
      "VecConvert<int32_t,1,int64_t,2>", "VecConvert<int64_t,2,int32_t,1>" }

\* C3: the four kernels between a 2-register int64 group and a 1-register
\* int32 or float group keep lane order and logical length: output element
\* i is the conversion of input element i, 64-bit element i living in
\* register i div 8, lane i mod 8 and 32-bit element i in lane i of the
\* one register; the output has exactly the registers of its group.
C3_LaneOrder ==
    \A k \in Calls :
        trace[k] \in RegisterCountChanging =>
            /\ WellFormed(hist[k + 1])
            /\ \A i \in Logical :
                  LET x == IF hist[k].N = 2
                           THEN Lane(hist[k].regs[(i \div 8) + 1], 8, i % 8)
                           ELSE Lane(hist[k].regs[1], 4, i)
                      y == IF hist[k + 1].N = 2
                           THEN Lane(hist[k + 1].regs[(i \div 8) + 1], 8, i % 8)
                           ELSE Lane(hist[k + 1].regs[1], 4, i)
                  IN  y = ElementConversion(trace[k], x)

C3_Witness ==
    /\ trace = <<"VecConvert<int64_t,2,float,1>", "VecConvert<float,1,int64_t,2>">>
    /\ \A i, j \in Logical : i # j => Elem(hist[2], i) # Elem(hist[2], j)
    /\ Elem(hist[3], 7) # Elem(hist[3], 8)
    /\ Elem(hist[3], 0) # Elem(hist[3], 15)

\* The binary32 of a small integer, and the order of magnitudes: for
\* non-NaN patterns a larger (exponent, fraction) is a larger magnitude.
FloatOfInt(n) ==
    LET a == IF n < 0 THEN 0 - n ELSE n
        p == CHOOSE q \in 0..23 : Pow2(q) <= a /\ a < Pow2(q + 1)
    IN  IF n = 0 THEN Zeros(4)
        ELSE EncodeFloat(IF n < 0 THEN 1 ELSE 0, 127 + p, (a - Pow2(p)) * Pow2(23 - p))

MagKey(f) == FExp(f) * 8388608 + FMant(f)

Exceeds(f, dst_t) ==
    ~FIsNaN(f) /\ FSign(f) = 0 /\ MagKey(f) > MagKey(FloatOfInt(MaxOf(dst_t)))

Below(f, dst_t) ==
    /\ ~FIsNaN(f)
    /\ FSign(f) = 1
    /\ MagKey(f) > MagKey(FloatOfInt(0 - MinOf(dst_t)))

\* The float f is an integer of magnitude below 2^24.
IsIntegral(f) ==
    \/ MagKey(f) = 0
    \/ FExp(f) \in 127..150 /\ FSig(f) % Pow2(150 - FExp(f)) = 0

\* The float r equals the integer v, |v| < 2^24.
IsExactly(r, v) ==
    LET e == FExp(r)
        a == IF v < 0 THEN 0 - v ELSE v
    IN  IF v = 0 THEN MagKey(r) = 0
        ELSE /\ FSign(r) = (IF v < 0 THEN 1 ELSE 0)
             /\ e \in 127..150
             /\ FSig(r) % Pow2(150 - e) = 0
             /\ FSig(r) \div Pow2(150 - e) = a

FloatToChar == "VecConvert<dst_t,1,float,1>"

\* C4: the float to 8-bit kernel saturates: a lane above the range of the
\* destination type gives its maximum, a lane below it gives its minimum,
\* an integral lane in range gives that integer; for int8_t 1000.0 gives
\* 127 (not the wrapped -24), -1000.0 gives -128 and 100.0 gives 100.
C4_Saturates ==
    \A k \in Calls :
        trace[k] = FloatToChar =>
            \A i \in Logical :
                LET f == Elem(hist[k], i)
                    d == hist[k + 1].T
                    r == ValueOf(d, Elem(hist[k + 1], i))
                IN  /\ Exceeds(f, d) => r = MaxOf(d)
                    /\ Below(f, d) => r = MinOf(d)
                    /\ (~FIsNaN(f) /\ ~Exceeds(f, d) /\ ~Below(f, d) /\ IsIntegral(f))
                          => IsExactly(f, r)
                    /\ d = "int8_t" =>
                          /\ f = FloatOfInt(1000) => r = 127 /\ r # 0 - 24
                          /\ f = FloatOfInt(0 - 1000) => r = 0 - 128
                          /\ f = FloatOfInt(100) => r = 100

C4_Witness ==
    /\ trace = <<FloatToChar>>
    /\ hist[2].T = "int8_t"
    /\ \E i, j \in Logical :
          /\ Elem(hist[1], i) = FloatOfInt(1000)
          /\ Elem(hist[2], i) = <<127>>
          /\ Elem(hist[1], j) = FloatOfInt(0 - 1000)
          /\ Elem(hist[2], j) = <<128>>

FloatToLong == "VecConvert<int64_t,2,float,1>"

Int64Max == Fill(7, 255) \o <<127>>

\* r is the integer part of the finite float f, |f| < 2^63.
IsIntegerPart(f, r) ==
    LET e == FExp(f)
        d == 150 - e
        n == SmallValue(r)
        a == IF n < 0 THEN 0 - n ELSE n
    IN  IF e >= 150
        THEN \* f is an integer: r is that integer
             /\ Int64ToFloat(r) = f
             /\ \A j \in 0..(e - 151) : Bit(r, j) = 0
        ELSE /\ FitsSmall(r)
             /\ FSign(f) = 0 => n >= 0
             /\ FSign(f) = 1 => n <= 0
             /\ IF d > 23 THEN n = 0
                ELSE /\ a <= Pow2(24 - d)
                     /\ a * Pow2(d) <= FSig(f)
                     /\ FSig(f) < (a + 1) * Pow2(d)

\* C5: the float to int64 kernel rounds every lane toward zero (the
\* result is the integer part of f when |f| < 2^63), is total (from every
\* float group the call is possible and returns a 2-register group), and
\* does not saturate: a lane at or above 2^63 does not give the int64
\* maximum.
C5_TruncatesTotal ==
    /\ Cur.T = "float" =>
          LET out == VecConvert_int64_t_2_float_1(Cur.regs)
          IN  /\ Len(out) = 2
              /\ \A r \in 1..2 :
                    Len(out[r]) = RegisterBytes /\ \A b \in 1..RegisterBytes : out[r][b] \in 0..255
    /\ \A k \in Calls :
          trace[k] = FloatToLong =>
              /\ WellFormed(hist[k + 1])
              /\ \A i \in Logical :
                    LET f == Elem(hist[k], i)
                        r == Elem(hist[k + 1], i)
                    IN  /\ Len(r) = 8
                        /\ FExp(f) < 190 => IsIntegerPart(f, r)
                        /\ (FSign(f) = 0 /\ FExp(f) >= 190) => r # Int64Max

C5_Witness ==
    /\ trace = <<FloatToLong>>
    /\ \E i, j, m \in Logical :
          \* 2.9 (0x4039999A) gives 2 and -2.9 gives -2
          /\ Elem(hist[1], i) = <<154, 153, 57, 64>>
          /\ Elem(hist[2], i) = IntToBytes(2, 8)
          /\ Elem(hist[1], j) = <<154, 153, 57, 192>>
          /\ Elem(hist[2], j) = IntToBytes(0 - 2, 8)
          \* a lane of at least 2^63
          /\ FSign(Elem(hist[1], m)) = 0
          /\ FExp(Elem(hist[1], m)) = 190

FloatToBF == "VecConvert<BFloat16,1,float,1>"

BFToFloat == "VecConvert<float,1,BFloat16,1>"

Top16(f) == f[3] + 256 * f[4]

Low16(f) == f[1] + 256 * f[2]

CharToFloat == "VecConvert<float,1,src_t,1>"

CharToInt == {"VecConvert<int32_t,1,int8_t,1>", "VecConvert<int32_t,1,uint8_t,1>"}

\* C7: for every 8-bit integer, signed and unsigned, the direct 8-bit to
\* float kernel gives the float that converting to int32 and then to float
\* gives, in each of the 16 lanes, and that float equals the integer.
C7_DirectEqualsComposed ==
    /\ \A k \in Calls :
          trace[k] = CharToFloat =>
              LET mid == Apply(<<"int32_t", 1, hist[k].T, 1>>, hist[k].regs, 0, 0)
              IN  /\ hist[k + 1].regs = Apply(<<"float", 1, "int32_t", 1>>, mid, 0, 0)
                  /\ \A i \in Logical :
                        IsExactly(Elem(hist[k + 1], i),
                                  ValueOf(hist[k].T, Elem(hist[k], i)))
    /\ \A k \in CallPairs :
          (trace[k] \in CharToInt /\ hist[k + 2].T = "float") =>
              hist[k + 2].regs = VecConvert_float_1_src_t_1(hist[k].T, hist[k].regs)

C7_Witness ==
    /\ trace = <<CharToFloat>>
    /\ hist[1].T = "int8_t"
    /\ \E i, j \in Logical :
          \* 0xFF is -1: -1.0 is 0xBF800000
          /\ Elem(hist[1], i) = <<255>>
          /\ Elem(hist[2], i) = <<0, 0, 128, 191>>
          \* 0xF0 is -16: -16.0 is 0xC1800000
          /\ Elem(hist[1], j) = <<240>>
          /\ Elem(hist[2], j) = <<0, 0, 128, 193>>

CharTypes == {"int8_t", "uint8_t"}

LongToChar == "VecConvert<dst_t,1,int64_t,2>"

\* A request between an 8-bit integer group and a 2-register int64 group.
NarrowToChar(t) ==
    Len(t) = 4 /\ t[1] \in CharTypes /\ t[2] = 1 /\ t[3] = "int64_t" /\ t[4] = 2

WidenFromChar(t) ==
    Len(t) = 4 /\ t[1] = "int64_t" /\ t[2] = 2 /\ t[3] \in CharTypes /\ t[4] = 1

Prev == hist[Len(hist) - 1]

\* C8 as stated: in both directions the conversion between 8-bit integers
\* and an int64 group is a specialization of the file that chains two
\* specializations of the file through int32.
C8_ComposedBothWays ==
    (NarrowToChar(req) \/ WidenFromChar(req)) =>
        /\ impl \in Specializations
        /\ Len(steps) = 2
        /\ \A s \in 1..Len(steps) : steps[s] \in Specializations

\* C8 amended: int64 to int8/uint8 is the specialization of lines 150-164,
\* which applies VecConvert<dst_t,1,int32_t,1> to the result of the file's
\* int64 to int32 kernel; the former is not a specialization of the file
\* and resolves to the generic VecConvert.  int8/uint8 to int64 has no
\* specialization in the file: it resolves to the generic VecConvert, whose
\* result is that of the file's 8-bit to int32 kernel followed by its int32
\* to int64 kernel.
C8_ComposedNarrowOnly ==
    /\ NarrowToChar(req) =>
          /\ impl = LongToChar
          /\ steps = <<Narrow, "generic">>
          /\ \A i \in Logical :
                Elem(Cur, i) = StaticCast(req[1], "int32_t", Int64ToInt32(Elem(Prev, i)))
    /\ WidenFromChar(req) =>
          /\ impl = "generic"
          /\ steps = <<>>
          /\ Cur.regs = VecConvert_int64_t_2_int32_t_1(
                            Apply(<<"int32_t", 1, req[3], 1>>, Prev.regs, 0, 0))

C8_Witness ==
    /\ trace = <<LongToChar>>
    /\ req[1] = "uint8_t"
    /\ \E i \in Logical :
          /\ ~InInt32Range(Elem(hist[1], i))
          /\ Elem(hist[2], i) = <<Elem(hist[1], i)[1]>>
          /\ Elem(hist[2], i) # <<0>>

\* C9: the 8-bit to int32 kernels read source lanes 0..15 only: output lane
\* i is source lane i sign-extended (int8_t) or zero-extended (uint8_t),
\* and the output is what it is with source lanes 16..63 cleared.
C9_FirstSixteenLanes ==
    \A k \in Calls :
        trace[k] \in CharToInt =>
            LET in     == hist[k]
                out    == hist[k + 1]
                masked == <<SubSeq(in.regs[1], 1, 16) \o Zeros(48)>>
            IN  /\ in.T = (IF trace[k] = "VecConvert<int32_t,1,int8_t,1>"
                           THEN "int8_t" ELSE "uint8_t")
                /\ WellFormed(out)
                /\ \A i \in Logical :
                      /\ FitsSmall(Elem(out, i))
                      /\ SmallValue(Elem(out, i)) = ValueOf(in.T, Lane(in.regs[1], 1, i))
                /\ out.regs = Apply(<<"int32_t", 1, in.T, 1>>, masked, 0, 0)

C9_Witness ==
    /\ trace = <<"VecConvert<int32_t,1,int8_t,1>">>
    /\ \E i \in Logical :
          /\ Lane(hist[1].regs[1], 1, i) = <<255>>
          /\ Elem(hist[2], i) = Fill(4, 255)
    /\ \E j \in 16..63 : Lane(hist[1].regs[1], 1, j) # <<0>>

\* C10: every request over the seven element types and the group sizes 1
\* and 2 matches at most one specialization of the file; a request that
\* matches one resolves to it, and a request that matches none resolves to
\* the generic fallback.
C10_UnambiguousDispatch ==
    impl # "unresolved" =>
        /\ Cardinality(Matching(req)) <= 1
        /\ Matching(req) # {} => Matching(req) = {impl}
        /\ Matching(req) = {} => impl = "generic"

C10_Witness ==
    /\ impl = "VecConvert<dst_t,1,int64_t,2>"
    /\ req = <<"uint8_t", 1, "int64_t", 2>>
    /\ Matching(<<"int8_t", 1, "int32_t", 1>>) = {}

====
